---- MODULE Spec2Model ----
(***************************************************************************)
(* The HTTP fetch layer of src-tauri/src/lib.rs: the process-wide shared   *)
(* client (HTTP_CLIENT, get_or_init_client), the host-adaptive header      *)
(* policy (get_headers_for_url) and the three commands fetch_url,          *)
(* http_request and check_network.                                         *)
(*                                                                         *)
(* Every command invocation is an asynchronous task.  A task moves through *)
(* the steps of its handler; the steps of get_or_init_client that read or  *)
(* write the shared slot are separate atomic actions, so that first-time   *)
(* callers can interleave.  The server, the transport and the client       *)
(* builder are the environment: their outcomes are chosen                  *)
(* nondeterministically.                                                   *)
(*                                                                         *)
(* The module also holds the two window commands collapse_window and       *)
(* expand_window with the geometry slot AppState.saved.  They are          *)
(* synchronous commands: each runs to its return as one step, and each     *)
(* call it makes on the window may fail.                                   *)
(*                                                                         *)
(* Option<T> is modelled as a set: {} is None and {x} is Some(x).          *)
(***************************************************************************)
EXTENDS Naturals, Sequences, FiniteSets, TLC

\* Number of command invocations that may be in flight at the same time.
NumTasks == 2

Tasks == 1..NumTasks

VARIABLES
    HTTP_CLIENT,   \* the OnceLock slot: {} or {client id}
    constructed,   \* number of reqwest::Client objects built so far
    build_failed,  \* whether some Client::builder().build() has failed
    task,          \* task[t]: the locals of invocation t and its position
    saved,         \* AppState.saved: {} or {SavedGeometry}
    window,        \* the main window: outer size, outer position, minimum size
    scale_factor,  \* the window's scale factor, in hundredths
    ret,           \* the window command that returned last, and its result
    expanded       \* the geometry the window had when it was collapsed: {}
                   \* while the window is not collapsed

vars == <<HTTP_CLIENT, constructed, build_failed, task,
          saved, window, scale_factor, ret, expanded>>

fetch_vars == <<HTTP_CLIENT, constructed, build_failed, task>>

window_vars == <<saved, window, scale_factor, ret, expanded>>

----------------------------------------------------------------------------
(* Text.  Strings are TLA+ strings; the operators below work on their      *)
(* characters (one-character strings).                                     *)

LOWER == "abcdefghijklmnopqrstuvwxyz"
UPPER == "ABCDEFGHIJKLMNOPQRSTUVWXYZ"
DIGITS == "0123456789"

Char(s, i) == SubSeq(s, i, i)

Tail1(s) == SubSeq(s, 2, Len(s))

\* str::contains
Contains(s, p) ==
    \E i \in 1..(Len(s) + 1 - Len(p)) : SubSeq(s, i, i + Len(p) - 1) = p

StartsWith(s, p) == Len(p) <= Len(s) /\ SubSeq(s, 1, Len(p)) = p

IndexIn(alphabet, c) == CHOOSE i \in 1..Len(alphabet) : Char(alphabet, i) = c

to_ascii_lowercase_char(c) ==
    IF Contains(UPPER, c) THEN Char(LOWER, IndexIn(UPPER, c)) ELSE c

to_ascii_uppercase_char(c) ==
    IF Contains(LOWER, c) THEN Char(UPPER, IndexIn(LOWER, c)) ELSE c

RECURSIVE to_lowercase(_)
to_lowercase(s) ==
    IF s = "" THEN ""
    ELSE to_ascii_lowercase_char(Char(s, 1)) \o to_lowercase(Tail1(s))

\* String::to_uppercase, on the ASCII strings of the model
RECURSIVE to_uppercase(_)
to_uppercase(s) ==
    IF s = "" THEN ""
    ELSE to_ascii_uppercase_char(Char(s, 1)) \o to_uppercase(Tail1(s))

\* str::eq_ignore_ascii_case
eq_ignore_ascii_case(a, b) == to_lowercase(a) = to_lowercase(b)

AllChars(s, Ok(_)) == \A i \in 1..Len(s) : Ok(Char(s, i))

\* Position of the first character of s satisfying Hit, or Len(s) + 1
FirstPos(s, Hit(_)) ==
    IF \E i \in 1..Len(s) : Hit(Char(s, i))
    THEN CHOOSE i \in 1..Len(s) :
             Hit(Char(s, i)) /\ \A j \in 1..(i - 1) : ~Hit(Char(s, j))
    ELSE Len(s) + 1

RECURSIVE StripSlashes(_)
StripSlashes(s) ==
    IF StartsWith(s, "/") THEN StripSlashes(Tail1(s)) ELSE s

----------------------------------------------------------------------------
(* Constants of the program.                                               *)

RSS_USER_AGENT == "SuperFlux/1.0 (RSS Reader; +https://github.com/user/superflux)"

BROWSER_USER_AGENT == "Mozilla/5.0 (Windows NT 10.0; Win64; x64) AppleWebKit/537.36 (KHTML, like Gecko) Chrome/120.0.0.0 Safari/537.36"

\* The header names of reqwest::header, as HeaderName stores them
USER_AGENT == "user-agent"
ACCEPT == "accept"

----------------------------------------------------------------------------
(* Url::parse, for the part of URL syntax the inputs of the model use:     *)
(* "scheme:" then, for http and https, any number of slashes and an        *)
(* authority that is a host (no userinfo, no port) up to the next "/",     *)
(* "?" or "#".  A string without a scheme is relative and does not parse;  *)
(* an http(s) URL with an empty host or a forbidden host character does    *)
(* not parse; the host of http(s) is lower-cased.  Any other scheme parses *)
(* with a host only after "//", and with no host otherwise.                *)

IsAlpha(c) == Contains(LOWER, c) \/ Contains(UPPER, c)

IsSchemeChar(c) == IsAlpha(c) \/ Contains(DIGITS, c) \/ c \in {"+", "-", "."}

IsHostEnd(c) == c \in {"/", "?", "#"}

IsForbiddenHostChar(c) == c \in {" ", "<", ">", "^", "|", "%", ":", "@"}

IsColon(c) == c = ":"

SchemeOf(s) == SubSeq(s, 1, FirstPos(s, IsColon) - 1)

HasScheme(s) ==
    /\ FirstPos(s, IsColon) <= Len(s)
    /\ SchemeOf(s) # ""
    /\ IsAlpha(Char(s, 1))
    /\ AllChars(SchemeOf(s), IsSchemeChar)

AfterScheme(s) == SubSeq(s, FirstPos(s, IsColon) + 1, Len(s))

IsSpecial(scheme) == to_lowercase(scheme) \in {"http", "https"}

Authority(rest) == SubSeq(rest, 1, FirstPos(rest, IsHostEnd) - 1)

\* Result<Url, ParseError>: ok, and the Url's host_str() as an Option
Url_parse(s) ==
    IF ~HasScheme(s) THEN [ok |-> FALSE, host |-> {}]
    ELSE IF IsSpecial(SchemeOf(s))
    THEN LET h == Authority(StripSlashes(AfterScheme(s)))
         IN  IF h = "" \/ ~AllChars(h, LAMBDA c : ~IsForbiddenHostChar(c))
             THEN [ok |-> FALSE, host |-> {}]
             ELSE [ok |-> TRUE, host |-> {to_lowercase(h)}]
    ELSE IF StartsWith(AfterScheme(s), "//")
    THEN LET h == Authority(SubSeq(AfterScheme(s), 3, Len(AfterScheme(s))))
         IN  [ok |-> TRUE, host |-> IF h = "" THEN {} ELSE {h}]
    ELSE [ok |-> TRUE, host |-> {}]

\* Option<&str>::unwrap_or("")
unwrap_or_empty(opt) == IF opt = {} THEN "" ELSE CHOOSE h \in opt : TRUE

----------------------------------------------------------------------------
(* Header maps.  A HeaderMap is a set of <<name, value>> pairs, the name   *)
(* as HeaderName stores it (lower case).                                   *)

\* The three branches of get_headers_for_url
RedditHeaders ==
    { <<USER_AGENT, BROWSER_USER_AGENT>>,
      <<ACCEPT, "text/html,application/xhtml+xml,application/xml;q=0.9,*/*;q=0.8">>,
      <<"accept-language", "en-US,en;q=0.9,fr;q=0.8">> }

YoutubeHeaders ==
    { <<USER_AGENT, RSS_USER_AGENT>>,
      <<ACCEPT, "application/atom+xml, application/xml, text/xml, */*">> }

DefaultHeaders ==
    { <<USER_AGENT, BROWSER_USER_AGENT>>,
      <<ACCEPT, "text/html,application/xhtml+xml,application/xml;q=0.9,*/*;q=0.8">>,
      <<"accept-language", "en-US,en;q=0.9,fr;q=0.8">> }

\* A variant that tests the rules in the other order
get_headers_for_url_youtube_first(host_str) ==
    LET host == unwrap_or_empty(host_str)
    IN  IF Contains(host, "youtube.com") THEN YoutubeHeaders
        ELSE IF Contains(host, "reddit.com") THEN RedditHeaders
        ELSE DefaultHeaders

\* get_headers_for_url, on the host_str() of the parsed URL
get_headers_for_url(host_str) ==
    LET host == unwrap_or_empty(host_str)
    IN  IF Contains(host, "reddit.com") THEN RedditHeaders
        ELSE IF Contains(host, "youtube.com") THEN YoutubeHeaders
        ELSE DefaultHeaders

HeaderNames(hm) == { e[1] : e \in hm }

HeaderValues(hm, name) == { e[2] : e \in { x \in hm : x[1] = name } }

\* HeaderName::try_from: a non-empty token (RFC 7230 tchar; the quote and the
\* backquote, which no input of the model uses, are left out)
TOKEN_PUNCT == "!#$%&*+-.^_|~"

IsTokenChar(c) ==
    \/ IsAlpha(c)
    \/ Contains(DIGITS, c)
    \/ Contains(TOKEN_PUNCT, c)

HeaderName_ok(key) == key # "" /\ AllChars(key, IsTokenChar)

\* HeaderValue::from_str: visible ASCII, space and tab; no other control character
IsControlChar(c) == c \in {"\n", "\r"}

HeaderValue_ok(value) == AllChars(value, LAMBDA c : ~IsControlChar(c))

----------------------------------------------------------------------------
(* Results.  Every command returns Result<_, String>; the error string is  *)
(* "<msg>: <detail>".  A result is a record: ok, the message prefix the    *)
(* code formats, the status code it carries (an Option), the caller key or *)
(* method it names, and the body text.                                     *)

Err(msg, key) ==
    [ok |-> FALSE, msg |-> msg, status |-> {}, key |-> key, body |-> ""]

ErrStatus(code) ==
    [ok |-> FALSE, msg |-> "HTTP", status |-> {code}, key |-> "", body |-> ""]

OkText(body) ==
    [ok |-> TRUE, msg |-> "", status |-> {}, key |-> "", body |-> body]

\* struct HttpResponse (status and body; the response headers are not modelled)
HttpResponse(code, body) ==
    [ok |-> TRUE, msg |-> "", status |-> {code}, key |-> "", body |-> body]

OkProbe(code) ==
    [ok |-> TRUE, msg |-> "OK: https://httpbin.org/get", status |-> {code},
     key |-> "", body |-> ""]

\* A variant with the upper limit off by one
is_success_to_300(code) == code >= 200 /\ code <= 300

\* StatusCode::is_success
is_success(code) == code >= 200 /\ code < 300

\* The error of send(): what e.is_connect(), e.is_timeout(), e.is_request() answer
Fault(c, t, r) == [connect |-> c, timeout |-> t, request |-> r]

\* A variant that tests the timeout before the connect property
fetch_url_classify_timeout_first(e) ==
    IF e.timeout THEN Err("Timeout", "")
    ELSE IF e.connect THEN Err("Connection failed", "")
    ELSE IF e.request THEN Err("TLS/Request error", "")
    ELSE Err("Request failed", "")

\* fetch_url's map_err closure on the error of send()
fetch_url_classify(e) ==
    IF e.connect THEN Err("Connection failed", "")
    ELSE IF e.timeout THEN Err("Timeout", "")
    ELSE IF e.request THEN Err("TLS/Request error", "")
    ELSE Err("Request failed", "")

\* A variant of the probe's Err arm that tests the timeout property first
check_network_classify_timeout_first(e) ==
    IF e.timeout THEN Err("Timeout", "")
    ELSE IF e.connect THEN Err("Connection failed (DNS or firewall?)", "")
    ELSE IF e.request THEN Err("TLS/Request error", "")
    ELSE Err("Network error", "")

\* check_network's Err arm
check_network_classify(e) ==
    IF e.connect THEN Err("Connection failed (DNS or firewall?)", "")
    ELSE IF e.timeout THEN Err("Timeout", "")
    ELSE IF e.request THEN Err("TLS/Request error", "")
    ELSE Err("Network error", "")

\* http_request's map_err on the error of send()
http_request_classify(e) == Err("Request failed", "")

\* http_request's match on method.to_uppercase(): the verb, or the error
SupportedVerbs == {"GET", "POST", "PUT", "DELETE", "PATCH"}

\* A variant that compares the method string as the caller wrote it
match_method_case_sensitive(method) ==
    LET m == method
    IN  IF m \in SupportedVerbs THEN [ok |-> TRUE, verb |-> m, err |-> Err("", "")]
        ELSE [ok |-> FALSE, verb |-> "", err |-> Err("Unsupported HTTP method", m)]

match_method(method) ==
    LET m == to_uppercase(method)
    IN  IF m \in SupportedVerbs THEN [ok |-> TRUE, verb |-> m, err |-> Err("", "")]
        ELSE [ok |-> FALSE, verb |-> "", err |-> Err("Unsupported HTTP method", m)]

\* The errors the header loop of http_request can return for the caller's
\* map: the loop stops at the first invalid entry it meets, and a HashMap is
\* iterated in an unspecified order, so it is one error of this set.
header_errors(headers) ==
    { Err("Invalid header name", e[1]) : e \in { x \in headers : ~HeaderName_ok(x[1]) } }
    \cup
    { Err("Invalid header value for", e[1]) :
          e \in { x \in headers : HeaderName_ok(x[1]) /\ ~HeaderValue_ok(x[2]) } }

\* The header loop when every entry is valid: req.header(name, value) appends
apply_headers(headers) == { <<to_lowercase(e[1]), e[2]>> : e \in headers }

\* A variant whose presence check compares the key exactly
with_user_agent_exact(headers, req_headers) ==
    IF ~\E e \in headers : e[1] = "User-Agent" \/ e[1] = "user-agent"
    THEN req_headers \cup { <<USER_AGENT, BROWSER_USER_AGENT>> }
    ELSE req_headers

\* "Set User-Agent if not already provided"
with_user_agent(headers, req_headers) ==
    IF ~\E e \in headers : eq_ignore_ascii_case(e[1], "user-agent")
    THEN req_headers \cup { <<USER_AGENT, BROWSER_USER_AGENT>> }
    ELSE req_headers

----------------------------------------------------------------------------
(* Tasks.                                                                  *)

\* The body text the server sends
BODY == "hello"

IdleTask ==
    [cmd       |-> "none",    \* the command this task runs
     pc        |-> "idle",    \* idle, init, build, set, unwrap, ready, await, body, done
     url       |-> "",        \* target_url / url
     method    |-> "",        \* http_request's method
     headers   |-> {},        \* http_request's headers: <<key, value>> pairs, keys unique
     req       |-> {},        \* the header map of the request that was sent
     client    |-> {},        \* the &'static Client get_or_init_client returned
     built     |-> {},        \* the Client this task built and has not yet stored
     sent      |-> 0,         \* the number of send() calls of this invocation
     resp      |-> {},        \* the status of the response received
     fault     |-> {},        \* the error send() returned
     body_read |-> "no",      \* no, ok, failed: what response.text() did
     result    |-> {}]        \* the value the command returned

Upd(t, r) == task' = [task EXCEPT ![t] = r]

Finish(t, res) == Upd(t, [task[t] EXCEPT !.pc = "done", !.result = {res}])

SharedUnchanged == UNCHANGED <<HTTP_CLIENT, constructed, build_failed>>

\* The fetch layer after construction
FetchInit ==
    /\ HTTP_CLIENT = {}
    /\ constructed = 0
    /\ build_failed = FALSE
    /\ task = [t \in Tasks |-> IdleTask]

----------------------------------------------------------------------------
(* get_or_init_client, as the commands call it.                            *)

\* A variant that remembers a failed construction and fails every later call
get_or_init_client_get_sticky(t) ==
    /\ task[t].pc = "init"
    /\ IF HTTP_CLIENT # {}
       THEN Upd(t, [task[t] EXCEPT !.pc = "ready", !.client = HTTP_CLIENT])
       ELSE IF build_failed
       THEN Finish(t, Err("Failed to create HTTP client", ""))
       ELSE Upd(t, [task[t] EXCEPT !.pc = "build"])
    /\ SharedUnchanged

\* if let Some(c) = HTTP_CLIENT.get() { return Ok(c); }
get_or_init_client_get(t) ==
    /\ task[t].pc = "init"
    /\ IF HTTP_CLIENT # {}
       THEN Upd(t, [task[t] EXCEPT !.pc = "ready", !.client = HTTP_CLIENT])
       ELSE Upd(t, [task[t] EXCEPT !.pc = "build"])
    /\ SharedUnchanged

\* reqwest::Client::builder()...build() succeeds: a new Client object
get_or_init_client_build(t) ==
    /\ task[t].pc = "build"
    /\ constructed' = constructed + 1
    /\ Upd(t, [task[t] EXCEPT !.pc = "set", !.built = {constructed + 1}])
    /\ UNCHANGED <<HTTP_CLIENT, build_failed>>

\* build() fails: map_err(..)? returns Err from the command
get_or_init_client_build_err(t) ==
    /\ task[t].pc = "build"
    /\ build_failed' = TRUE
    /\ Finish(t, Err("Failed to create HTTP client", ""))
    /\ UNCHANGED <<HTTP_CLIENT, constructed>>

\* A variant whose store replaces what the slot holds
get_or_init_client_set_overwrite(t) ==
    /\ task[t].pc = "set"
    /\ HTTP_CLIENT' = task[t].built
    /\ Upd(t, [task[t] EXCEPT !.pc = "unwrap", !.built = {}])
    /\ UNCHANGED <<constructed, build_failed>>

\* let _ = HTTP_CLIENT.set(client): stores only into an empty slot
get_or_init_client_set(t) ==
    /\ task[t].pc = "set"
    /\ HTTP_CLIENT' = IF HTTP_CLIENT = {} THEN task[t].built ELSE HTTP_CLIENT
    /\ Upd(t, [task[t] EXCEPT !.pc = "unwrap", !.built = {}])
    /\ UNCHANGED <<constructed, build_failed>>

\* Ok(HTTP_CLIENT.get().unwrap()): unwrap panics on an empty slot
get_or_init_client_unwrap(t) ==
    /\ task[t].pc = "unwrap"
    /\ IF HTTP_CLIENT = {}
       THEN Finish(t, Err("panic: unwrap on None", ""))
       ELSE Upd(t, [task[t] EXCEPT !.pc = "ready", !.client = HTTP_CLIENT])
    /\ SharedUnchanged

----------------------------------------------------------------------------
(* fetch_url.                                                              *)

\* Url::parse(&target_url)?, get_headers_for_url(&parsed), then
\* get_or_init_client() is called
fetch_url_start(t, urls) ==
    /\ task[t].pc = "idle"
    /\ \E u \in urls :
         LET parsed == Url_parse(u)
             me == [IdleTask EXCEPT !.cmd = "fetch_url", !.url = u]
         IN  IF ~parsed.ok
             THEN Upd(t, [me EXCEPT !.pc = "done", !.result = {Err("Invalid URL", "")}])
             ELSE Upd(t, [me EXCEPT !.pc = "init",
                                    !.req = get_headers_for_url(parsed.host)])
    /\ SharedUnchanged

\* client.get(&target_url).headers(headers).send(), up to the await
fetch_url_send(t) ==
    /\ task[t].cmd = "fetch_url"
    /\ task[t].pc = "ready"
    /\ Upd(t, [task[t] EXCEPT !.pc = "await", !.sent = @ + 1])
    /\ SharedUnchanged

\* A variant that sends the request again after a timeout
fetch_url_send_err_retry(t, faults) ==
    /\ task[t].cmd = "fetch_url"
    /\ task[t].pc = "await"
    /\ \E e \in faults :
         IF e.timeout
         THEN Upd(t, [task[t] EXCEPT !.pc = "ready"])
         ELSE Upd(t, [task[t] EXCEPT !.pc = "done", !.fault = {e},
                                     !.result = {fetch_url_classify(e)}])
    /\ SharedUnchanged

\* send() returns Err(e): map_err classifies it and ? returns
fetch_url_send_err(t, faults) ==
    /\ task[t].cmd = "fetch_url"
    /\ task[t].pc = "await"
    /\ \E e \in faults :
         Upd(t, [task[t] EXCEPT !.pc = "done", !.fault = {e},
                                !.result = {fetch_url_classify(e)}])
    /\ SharedUnchanged

\* send() returns a response: if !status.is_success() return Err("HTTP {code}")
fetch_url_response(t, statuses) ==
    /\ task[t].cmd = "fetch_url"
    /\ task[t].pc = "await"
    /\ \E code \in statuses :
         IF ~is_success(code)
         THEN Upd(t, [task[t] EXCEPT !.pc = "done", !.resp = {code},
                                     !.result = {ErrStatus(code)}])
         ELSE Upd(t, [task[t] EXCEPT !.pc = "body", !.resp = {code}])
    /\ SharedUnchanged

\* response.text().await is Ok(body)
fetch_url_text(t) ==
    /\ task[t].cmd = "fetch_url"
    /\ task[t].pc = "body"
    /\ Upd(t, [task[t] EXCEPT !.pc = "done", !.body_read = "ok",
                              !.result = {OkText(BODY)}])
    /\ SharedUnchanged

\* response.text().await is Err(e)
fetch_url_text_err(t) ==
    /\ task[t].cmd = "fetch_url"
    /\ task[t].pc = "body"
    /\ Upd(t, [task[t] EXCEPT !.pc = "done", !.body_read = "failed",
                              !.result = {Err("Failed to read response body", "")}])
    /\ SharedUnchanged

----------------------------------------------------------------------------
(* http_request.  The optional request body does not change the control    *)
(* flow and is left out.                                                   *)

\* The call: get_or_init_client() is its first statement
http_request_start(t, requests) ==
    /\ task[t].pc = "idle"
    /\ \E r \in requests :
         Upd(t, [IdleTask EXCEPT !.cmd = "http_request", !.pc = "init",
                                 !.method = r.method, !.url = r.url,
                                 !.headers = r.headers])
    /\ SharedUnchanged

\* A variant that validates the caller's headers only after sending
http_request_send_validate_late(t) ==
    /\ task[t].cmd = "http_request"
    /\ task[t].pc = "ready"
    /\ LET m == match_method(task[t].method)
           errs == header_errors(task[t].headers)
       IN  IF ~m.ok THEN Finish(t, m.err)
           ELSE IF errs # {}
           THEN \E e \in errs :
                    Upd(t, [task[t] EXCEPT !.pc = "done", !.result = {e},
                                           !.sent = @ + 1])
           ELSE Upd(t, [task[t] EXCEPT
                    !.pc = "await",
                    !.req = with_user_agent(task[t].headers,
                                            apply_headers(task[t].headers)),
                    !.sent = @ + 1])
    /\ SharedUnchanged

\* From the match on the method to req.send(), up to the await
http_request_send(t) ==
    /\ task[t].cmd = "http_request"
    /\ task[t].pc = "ready"
    /\ LET m == match_method(task[t].method)
           errs == header_errors(task[t].headers)
       IN  IF ~m.ok THEN Finish(t, m.err)
           ELSE IF errs # {} THEN \E e \in errs : Finish(t, e)
           ELSE Upd(t, [task[t] EXCEPT
                    !.pc = "await",
                    !.req = with_user_agent(task[t].headers,
                                            apply_headers(task[t].headers)),
                    !.sent = @ + 1])
    /\ SharedUnchanged

\* send() returns Err(e): map_err(|e| format!("Request failed: {e}"))?
http_request_send_err(t, faults) ==
    /\ task[t].cmd = "http_request"
    /\ task[t].pc = "await"
    /\ \E e \in faults :
         Upd(t, [task[t] EXCEPT !.pc = "done", !.fault = {e},
                                !.result = {http_request_classify(e)}])
    /\ SharedUnchanged

\* A variant that fails on a non-success status, as fetch_url does
http_request_response_checked(t, statuses) ==
    /\ task[t].cmd = "http_request"
    /\ task[t].pc = "await"
    /\ \E code \in statuses :
         IF ~is_success(code)
         THEN Upd(t, [task[t] EXCEPT !.pc = "done", !.resp = {code},
                                     !.result = {ErrStatus(code)}])
         ELSE Upd(t, [task[t] EXCEPT !.pc = "body", !.resp = {code}])
    /\ SharedUnchanged

\* send() returns a response: the status is kept, whatever it is
http_request_response(t, statuses) ==
    /\ task[t].cmd = "http_request"
    /\ task[t].pc = "await"
    /\ \E code \in statuses :
         Upd(t, [task[t] EXCEPT !.pc = "body", !.resp = {code}])
    /\ SharedUnchanged

\* response.text().await is Ok(body): Ok(HttpResponse { status, body, headers })
http_request_text(t) ==
    /\ task[t].cmd = "http_request"
    /\ task[t].pc = "body"
    /\ \E code \in task[t].resp :
         Upd(t, [task[t] EXCEPT !.pc = "done", !.body_read = "ok",
                                !.result = {HttpResponse(code, BODY)}])
    /\ SharedUnchanged

\* response.text().await is Err(e)
http_request_text_err(t) ==
    /\ task[t].cmd = "http_request"
    /\ task[t].pc = "body"
    /\ Upd(t, [task[t] EXCEPT !.pc = "done", !.body_read = "failed",
                              !.result = {Err("Failed to read response body", "")}])
    /\ SharedUnchanged

----------------------------------------------------------------------------
(* check_network.                                                          *)

check_network_start(t) ==
    /\ task[t].pc = "idle"
    /\ Upd(t, [IdleTask EXCEPT !.cmd = "check_network", !.pc = "init",
                               !.url = "https://httpbin.org/get"])
    /\ SharedUnchanged

\* client.get(test_url).send(), up to the await
check_network_send(t) ==
    /\ task[t].cmd = "check_network"
    /\ task[t].pc = "ready"
    /\ Upd(t, [task[t] EXCEPT !.pc = "await", !.sent = @ + 1])
    /\ SharedUnchanged

\* Err(e) => the classified error
check_network_send_err(t, faults) ==
    /\ task[t].cmd = "check_network"
    /\ task[t].pc = "await"
    /\ \E e \in faults :
         Upd(t, [task[t] EXCEPT !.pc = "done", !.fault = {e},
                                !.result = {check_network_classify(e)}])
    /\ SharedUnchanged

\* Ok(resp) => Ok("OK: {test_url} -> HTTP {status}")
check_network_response(t, statuses) ==
    /\ task[t].cmd = "check_network"
    /\ task[t].pc = "await"
    /\ \E code \in statuses :
         Upd(t, [task[t] EXCEPT !.pc = "done", !.resp = {code},
                                !.result = {OkProbe(code)}])
    /\ SharedUnchanged

\* The command's future completes and its locals are dropped
Return(t) ==
    /\ task[t].pc = "done"
    /\ Upd(t, IdleTask)
    /\ SharedUnchanged

----------------------------------------------------------------------------
(* The window commands.  Sizes and positions are physical pixels; a        *)
(* logical length is a fraction num/den of logical pixels, and the scale   *)
(* factor is kept in hundredths (150 is 1.5).                              *)

\* const COLLAPSED_HEIGHT: f64 = 52.0
COLLAPSED_HEIGHT == 52

PhysicalSize(width, height) == [width |-> width, height |-> height]

PhysicalPosition(x, y) == [x |-> x, y |-> y]

\* struct SavedGeometry
SavedGeometry(size, pos) == [size |-> size, pos |-> pos]

\* Logical pixels to physical pixels: the product with the scale factor,
\* rounded to the nearest integer
to_physical(num, den, factor) == (2 * num * factor + 100 * den) \div (200 * den)

\* LogicalSize::new(w, h) as the window applies it, w being wnum / wden
LogicalSize(wnum, wden, h, factor) ==
    PhysicalSize(to_physical(wnum, wden, factor), to_physical(h, 1, factor))

\* The calls of collapse_window that return a Result, in program order
CollapseCalls == <<"outer_size", "outer_position", "scale_factor",
                   "set_min_size", "set_size">>

\* The calls of expand_window on its two branches
ExpandCallsSaved == <<"set_min_size", "set_size", "set_position">>

ExpandCallsDefault == <<"set_min_size", "set_size">>

\* The calls that succeeded when the call at position failed_at returned Err
\* (all of them when failed_at is past the last one)
Succeeded(calls, failed_at) == { calls[i] : i \in 1..(failed_at - 1) }

\* run(), .manage(AppState { saved: Mutex::new(None) }): the slot is empty and
\* the window is shown expanded at some size and position
WindowInit(sizes, positions, factors) ==
    /\ saved = {}
    /\ ret = [cmd |-> "none", ok |-> TRUE]
    /\ expanded = {}
    /\ scale_factor \in factors
    /\ \E sz \in sizes, p \in positions :
         window = [size |-> LogicalSize(sz[1], 1, sz[2], scale_factor),
                   pos  |-> p,
                   min  |-> LogicalSize(900, 1, 600, scale_factor)]

collapse_window ==
    /\ \E failed_at \in 1..(Len(CollapseCalls) + 1) :
         LET done == Succeeded(CollapseCalls, failed_at)
             size == window.size
             pos == window.pos
             factor == scale_factor
         IN  /\ ret' = [cmd |-> "collapse_window", ok |-> failed_at > Len(CollapseCalls)]
             /\ saved' = IF "scale_factor" \in done
                         THEN { SavedGeometry(size, pos) }
                         ELSE saved
             /\ window' =
                   [window EXCEPT
                      !.min  = IF "set_min_size" \in done
                               THEN LogicalSize(200, 1, COLLAPSED_HEIGHT, factor)
                               ELSE @,
                      \* logical_w = size.width as f64 / factor
                      !.size = IF "set_size" \in done
                               THEN LogicalSize(size.width * 100, factor,
                                                COLLAPSED_HEIGHT, factor)
                               ELSE @]
             /\ expanded' = IF "set_size" \in done /\ expanded = {}
                            THEN { SavedGeometry(size, pos) }
                            ELSE expanded
    /\ UNCHANGED scale_factor
    /\ UNCHANGED fetch_vars

expand_window ==
    /\ saved' = {}
    /\ IF saved # {}
       THEN \E geo \in saved, failed_at \in 1..(Len(ExpandCallsSaved) + 1) :
              LET done == Succeeded(ExpandCallsSaved, failed_at)
              IN  /\ ret' = [cmd |-> "expand_window",
                             ok |-> failed_at > Len(ExpandCallsSaved)]
                  /\ window' =
                        [window EXCEPT
                           !.min  = IF "set_min_size" \in done
                                    THEN LogicalSize(900, 1, 600, scale_factor)
                                    ELSE @,
                           !.size = IF "set_size" \in done THEN geo.size ELSE @,
                           !.pos  = IF "set_position" \in done THEN geo.pos ELSE @]
                  /\ expanded' = IF "set_size" \in done THEN {} ELSE expanded
       ELSE \E failed_at \in 1..(Len(ExpandCallsDefault) + 1) :
              LET done == Succeeded(ExpandCallsDefault, failed_at)
              IN  /\ ret' = [cmd |-> "expand_window",
                             ok |-> failed_at > Len(ExpandCallsDefault)]
                  /\ window' =
                        [window EXCEPT
                           !.min  = IF "set_min_size" \in done
                                    THEN LogicalSize(900, 1, 600, scale_factor)
                                    ELSE @,
                           !.size = IF "set_size" \in done
                                    THEN LogicalSize(1280, 1, 800, scale_factor)
                                    ELSE @]
                  /\ expanded' = IF "set_size" \in done THEN {} ELSE expanded
    /\ UNCHANGED scale_factor
    /\ UNCHANGED fetch_vars

\* WindowEvent::Moved: the user drags the window
window_moved(positions) ==
    /\ \E p \in positions : window' = [window EXCEPT !.pos = p]
    /\ window'.pos # window.pos
    /\ UNCHANGED <<saved, scale_factor, ret, expanded>>
    /\ UNCHANGED fetch_vars

\* WindowEvent::Resized: the user resizes the window, down to its minimum size
window_resized(sizes) ==
    /\ \E sz \in sizes :
         LET size == LogicalSize(sz[1], 1, sz[2], scale_factor)
         IN  /\ size.width >= window.min.width
             /\ size.height >= window.min.height
             /\ window' = [window EXCEPT !.size = size]
    /\ window'.size # window.size
    /\ UNCHANGED <<saved, scale_factor, ret, expanded>>
    /\ UNCHANGED fetch_vars

----------------------------------------------------------------------------
(* The inputs and the environment's outcomes.  Concurrent callers draw     *)
(* from a few representative inputs; a single caller draws from the wide   *)
(* sets.                                                                   *)

\* How many entries a caller's header map holds at most (wide inputs)
MaxHeaders == 2

HostParts ==
    { "", "www.", "old.", "reddit.com", "youtube.com", "reddit", ".com",
      "example.org", "Reddit.COM", "youtube.com." }

Hosts == { h \in { a \o b : a \in HostParts, b \in HostParts } : ~StartsWith(h, ".") }

WideUrls ==
    { "https://" \o h \o "/feed.xml" : h \in Hosts }
    \cup { "not a url", "/feed.xml", "www.reddit.com/r/rust", "", "://reddit.com",
           "http:youtube.com", "https://exa mple.org/", "data:text/plain,hi",
           "mailto:me@reddit.com", "feed://youtube.com/x" }

WideMethods ==
    { "GET", "get", "Get", "POST", "post", "PUT", "put", "DELETE", "delete",
      "PATCH", "Patch", "HEAD", "OPTIONS", "", "GETS" }

HeaderEntries ==
    { <<"User-Agent", "curl/8.0">>, <<"user-agent", "probe">>, <<"USER-AGENT", "">>,
      <<"User_Agent", "other">>, <<"X-User-Agent", "other">>, <<"Accept", "*/*">>,
      <<"Bad Name", "v">>, <<"", "v">>, <<"X-Token", "a\nb">> }

WideHeaderMaps == { hm \in SUBSET HeaderEntries : Cardinality(hm) <= MaxHeaders }

HttpUrls == { "https://www.reddit.com/api/v1/me", "https://www.youtube.com/feeds" }

WideRequests ==
    { [method |-> m, url |-> u, headers |-> hm] :
          m \in WideMethods, u \in HttpUrls, hm \in WideHeaderMaps }

AllFaults == { Fault(c, t, r) : c \in BOOLEAN, t \in BOOLEAN, r \in BOOLEAN }

Wide ==
    [urls     |-> WideUrls,
     requests |-> WideRequests,
     statuses |-> {199, 200, 204, 299, 300, 404, 500},
     faults   |-> AllFaults]

Narrow ==
    [urls     |-> { "not a url", "https://www.reddit.com/r/rust/.rss" },
     requests |-> { [method |-> "get", url |-> "https://www.reddit.com/api/v1/me",
                     headers |-> {}],
                    [method |-> "HEAD", url |-> "https://www.reddit.com/api/v1/me",
                     headers |-> { <<"Bad Name", "v">> }] },
     statuses |-> {200, 404},
     faults   |-> { Fault(TRUE, TRUE, TRUE) }]

\* The window: logical sizes the user gives it (the first two are also start
\* sizes), its positions, and the scale factors of the monitor
StartSizes == { <<1280, 800>>, <<1000, 700>> }

UserSizes == StartSizes \cup { <<900, 600>>, <<400, 52>> }

Positions == { PhysicalPosition(0, 0), PhysicalPosition(120, 80) }

ScaleFactors == {100, 150}

----------------------------------------------------------------------------
(* The specifications.                                                     *)

\* The process starts with the window as the first start size at the first
\* position, unscaled
Init ==
    /\ FetchInit
    /\ WindowInit({<<1280, 800>>}, {PhysicalPosition(0, 0)}, {100})

Step(t, I) ==
    \/ fetch_url_start(t, I.urls)
    \/ http_request_start(t, I.requests)
    \/ check_network_start(t)
    \/ get_or_init_client_get(t)
    \/ get_or_init_client_build(t)
    \/ get_or_init_client_build_err(t)
    \/ get_or_init_client_set(t)
    \/ get_or_init_client_unwrap(t)
    \/ fetch_url_send(t)
    \/ fetch_url_send_err(t, I.faults)
    \/ fetch_url_response(t, I.statuses)
    \/ fetch_url_text(t)
    \/ fetch_url_text_err(t)
    \/ http_request_send(t)
    \/ http_request_send_err(t, I.faults)
    \/ http_request_response(t, I.statuses)
    \/ http_request_text(t)
    \/ http_request_text_err(t)
    \/ check_network_send(t)
    \/ check_network_send_err(t, I.faults)
    \/ check_network_response(t, I.statuses)
    \/ Return(t)

\* Any number of invocations in flight, interleaved at every step
Next == (\E t \in Tasks : Step(t, Narrow)) /\ UNCHANGED window_vars

Spec == Init /\ [][Next]_vars

\* One caller that invokes the commands one after the other
NextSeq == Step(1, Wide) /\ UNCHANGED window_vars

SpecSeq == Init /\ [][NextSeq]_vars

\* The window commands, called one after the other by the UI, and the user
\* moving and resizing the window in between
InitWindow ==
    /\ FetchInit
    /\ WindowInit(StartSizes, Positions, ScaleFactors)

NextWindow ==
    \/ collapse_window
    \/ expand_window
    \/ window_moved(Positions)
    \/ window_resized(UserSizes)

SpecWindow == InitWindow /\ [][NextWindow]_vars

----------------------------------------------------------------------------
(* Vocabulary of the properties.                                           *)

Done(t) == task[t].pc = "done"

Res(t) == CHOOSE r \in task[t].result : TRUE

ClientError == Err("Failed to create HTTP client", "")

\* The error categories of the specification's taxonomy, by the message the
\* code formats
Category(r) ==
    IF r.ok THEN "Ok"
    ELSE IF r.msg \in {"Invalid URL", "Unsupported HTTP method",
                       "Invalid header name", "Invalid header value for"}
    THEN "InvalidInput"
    ELSE IF r.msg \in {"Connection failed", "Connection failed (DNS or firewall?)"}
    THEN "ConnectFailed"
    ELSE IF r.msg = "Timeout" THEN "TimedOut"
    ELSE IF r.msg = "TLS/Request error" THEN "TransportOrTLSFailed"
    ELSE IF r.msg = "HTTP" THEN "HttpStatusFailure"
    ELSE IF r.msg = "Failed to read response body" THEN "BodyReadFailed"
    ELSE IF r.msg \in {"Request failed", "Network error"} THEN "Other"
    ELSE "Fatal"

----------------------------------------------------------------------------
(* C1.  Under any interleaving of get_or_init_client calls, every call     *)
(* that returns Ok holds the client stored in the slot; the slot, once     *)
(* set, is never replaced or cleared; and a caller that has built its      *)
(* client goes on to return Ok (no error and no panic comes from the       *)
(* race): the only error is the caller's own failed build.                 *)
C1_OneSharedInstance ==
    [][ /\ HTTP_CLIENT # {} => HTTP_CLIENT' = HTTP_CLIENT
        /\ \A t \in Tasks :
             /\ task'[t].client # {} => task'[t].client = HTTP_CLIENT'
             /\ task[t].pc \in {"set", "unwrap"} /\ task'[t] # task[t]
                    => task'[t].pc \in {"unwrap", "ready"} /\ task'[t].result = {}
             /\ task[t].pc \in {"init", "build", "set", "unwrap"} /\ task'[t].result # {}
                    => task[t].pc = "build" /\ task'[t].result = {ClientError}
      ]_vars

\* Two first-time callers raced, each built a client, and both returned the
\* stored one
C1_Witness ==
    \E t, u \in Tasks :
        /\ t # u
        /\ constructed >= 2
        /\ task[t].client # {} /\ task[u].client = task[t].client

(* C2.  The shared client is constructed at most once per process.         *)
C2_ConstructedAtMostOnce == constructed <= 1

(* C3, as claimed.  Once a construction has failed, no construction is     *)
(* attempted again and no later get_or_init_client returns a client.       *)
C3_FailureIsFatal ==
    [][ build_failed =>
          \A t \in Tasks :
              /\ task[t].pc = "build" => task'[t].pc = "build"
              /\ task[t].client = {} => task'[t].client = {}
      ]_vars

(* C3, amended.  A failed construction fails only the invocation that      *)
(* attempted it: that invocation returns the construction error, has sent  *)
(* no request and leaves the slot as it was.  The failure is not           *)
(* remembered: a get_or_init_client that finds the slot empty attempts a   *)
(* construction, whether or not an earlier one failed, and one that finds  *)
(* the slot set returns the stored client.                                 *)
C3_FailureNotRemembered ==
    [][ \A t \in Tasks :
          /\ task[t].pc = "init" /\ task'[t] # task[t] /\ HTTP_CLIENT = {}
                 => task'[t].pc = "build" /\ task'[t].result = {}
          /\ task[t].pc = "init" /\ task'[t] # task[t] /\ HTTP_CLIENT # {}
                 => task'[t].pc = "ready" /\ task'[t].client = HTTP_CLIENT
          /\ task[t].pc = "build" /\ task'[t].pc = "done"
                 => /\ task'[t].result = {ClientError}
                    /\ task'[t].sent = 0
                    /\ HTTP_CLIENT' = HTTP_CLIENT
          /\ task'[t].result = {ClientError} => task[t].pc \in {"build", "done"}
      ]_vars

\* After a failed construction a later invocation has built and obtained the
\* client
C3_Witness ==
    /\ build_failed
    /\ task[1].pc = "ready"
    /\ task[1].client # {}
    /\ constructed = 1

----------------------------------------------------------------------------
\* What the caller passed is invalid: the URL of fetch_url does not parse, or
\* the method of http_request is unsupported, or one of its headers is invalid
BadHeaderKeys(t) ==
    { e[1] : e \in { x \in task[t].headers :
                        ~HeaderName_ok(x[1]) \/ ~HeaderValue_ok(x[2]) } }

\* The inputs' parses and upper-case forms, tabulated once
ParseOf == [u \in Wide.urls \cup Narrow.urls |-> Url_parse(u)]

UpperOf ==
    [m \in WideMethods \cup { r.method : r \in Narrow.requests } |-> to_uppercase(m)]

MethodSupported(t) == UpperOf[task[t].method] \in SupportedVerbs

InvalidInputGiven(t) ==
    \/ task[t].cmd = "fetch_url" /\ ~ParseOf[task[t].url].ok
    \/ task[t].cmd = "http_request" /\ (~MethodSupported(t) \/ BadHeaderKeys(t) # {})

\* For an invalid header (the method being supported) the error names an
\* offending caller key
NamesOffendingKey(t) ==
    task[t].cmd = "http_request" /\ MethodSupported(t) /\ Category(Res(t)) = "InvalidInput"
        => Res(t).key \in BadHeaderKeys(t)

(* C4, as claimed.  An invocation given invalid input returns the          *)
(* InvalidInput error and has sent no request; for an invalid header the   *)
(* error names one of the offending keys.                                  *)
C4_InvalidInputAlways ==
    \A t \in Tasks :
        Done(t) /\ InvalidInputGiven(t)
            => /\ Category(Res(t)) = "InvalidInput"
               /\ task[t].sent = 0
               /\ NamesOffendingKey(t)

(* C4, amended.  An invocation given invalid input has sent no request     *)
(* when it returns, and it returns the InvalidInput error (for an invalid  *)
(* header, naming one of the offending keys), except that http_request,    *)
(* which obtains the shared client before it looks at its arguments,       *)
(* returns the client construction error when the client cannot be built.  *)
(* Every InvalidInput outcome has sent no request.                         *)
C4_InvalidInputNoNetwork ==
    \A t \in Tasks :
        /\ Done(t) /\ InvalidInputGiven(t)
               => /\ task[t].sent = 0
                  /\ \/ Category(Res(t)) = "InvalidInput"
                     \/ /\ task[t].cmd = "http_request"
                        /\ task[t].client = {}
                        /\ Res(t) = ClientError
                  /\ NamesOffendingKey(t)
        /\ Done(t) /\ Category(Res(t)) = "InvalidInput"
               => task[t].sent = 0 /\ InvalidInputGiven(t)

\* http_request was given two invalid headers and returned the error naming
\* one of them, with no request sent
C4_Witness ==
    /\ Done(1)
    /\ task[1].cmd = "http_request"
    /\ Cardinality(BadHeaderKeys(1)) = 2
    /\ Res(1) = Err("Invalid header value for", "X-Token")
    /\ task[1].sent = 0

----------------------------------------------------------------------------
Is2xx(code) == code \in 200..299

(* C5.  In fetch_url, once a response has arrived the status decides: a    *)
(* status outside 200-299 gives the error HTTP <that code> and the body is *)
(* never read; a status in 200-299 gives Ok(body) when the body is read    *)
(* and the body-read error when reading fails; nothing else.               *)
C5_StatusDecidesFetch ==
    \A t \in Tasks :
        task[t].cmd = "fetch_url" =>
            \A code \in task[t].resp :
                IF ~Is2xx(code)
                THEN /\ Done(t)
                     /\ task[t].result = {ErrStatus(code)}
                     /\ task[t].body_read = "no"
                ELSE \/ task[t].pc = "body" /\ task[t].result = {}
                                            /\ task[t].body_read = "no"
                     \/ Done(t) /\ task[t].body_read = "ok"
                                /\ task[t].result = {OkText(BODY)}
                     \/ Done(t) /\ task[t].body_read = "failed"
                                /\ Category(Res(t)) = "BodyReadFailed"

\* fetch_url got status 300, just outside the success range, and returned
\* HTTP 300 without reading the body
C5_Witness ==
    /\ task[1].cmd = "fetch_url"
    /\ task[1].resp = {300}
    /\ task[1].result = {ErrStatus(300)}
    /\ task[1].body_read = "no"

----------------------------------------------------------------------------
(* C6.  http_request never turns a status into a failure: after a response *)
(* the only error is the body-read error, and with the body read it        *)
(* returns Ok with the server's status.  For the same non-2xx status s,    *)
(* fetch_url returns the error HTTP s and http_request returns Ok with s.  *)
C6_HttpRequestKeepsStatus ==
    \A t \in Tasks :
        task[t].cmd = "http_request" =>
            \A s \in task[t].resp :
                /\ task[t].pc \in {"body", "done"}
                /\ Done(t) => task[t].body_read # "no"
                /\ task[t].body_read = "failed" => Category(Res(t)) = "BodyReadFailed"
                /\ task[t].body_read = "ok"
                       => Res(t).ok /\ Res(t).status = {s} /\ Res(t).body = BODY
                /\ \A u \in Tasks :
                       task[u].cmd = "fetch_url" /\ task[u].resp = {s} /\ ~Is2xx(s)
                           => /\ task[u].result = {ErrStatus(s)}
                              /\ task[t].body_read = "ok"
                                     => Res(t).ok /\ Res(t).status = {s}

\* The same 404 was answered to a fetch_url and to an http_request: the
\* first returned the error HTTP 404, the second Ok with status 404
C6_Witness ==
    \E t, u \in Tasks :
        /\ task[t].cmd = "http_request" /\ task[u].cmd = "fetch_url"
        /\ task[t].resp = {404} /\ task[u].resp = {404}
        /\ task[t].result = {HttpResponse(404, BODY)}
        /\ task[u].result = {ErrStatus(404)}

----------------------------------------------------------------------------
\* The host get_headers_for_url sees for the URL fetch_url was given
HostOf(t) == unwrap_or_empty(ParseOf[task[t].url].host)

SomeValueContains(hm, name, part) ==
    \E v \in HeaderValues(hm, name) : Contains(v, part)

(* C7.  get_headers_for_url decides by ordered substring tests on the      *)
(* host: with "reddit.com" in it (even if "youtube.com" is in it too) the  *)
(* browser User-Agent, an Accept with text/html and an Accept-Language;    *)
(* otherwise with "youtube.com" in it the SuperFlux User-Agent, an Accept  *)
(* with atom+xml and no Accept-Language; for any other host, and for no    *)
(* host, exactly the header set of the reddit rule.  A User-Agent is       *)
(* always there.                                                           *)
C7_HostPolicy ==
    \A t \in Tasks :
        task[t].cmd = "fetch_url" /\ ParseOf[task[t].url].ok =>
            LET hm == task[t].req
            IN  /\ USER_AGENT \in HeaderNames(hm)
                /\ IF Contains(HostOf(t), "reddit.com")
                   THEN /\ HeaderValues(hm, USER_AGENT) = {BROWSER_USER_AGENT}
                        /\ SomeValueContains(hm, ACCEPT, "text/html")
                        /\ "accept-language" \in HeaderNames(hm)
                   ELSE IF Contains(HostOf(t), "youtube.com")
                   THEN /\ HeaderValues(hm, USER_AGENT) = {RSS_USER_AGENT}
                        /\ SomeValueContains(hm, ACCEPT, "atom+xml")
                        /\ "accept-language" \notin HeaderNames(hm)
                   ELSE hm = RedditHeaders

\* A host with both substrings in it got the browser headers of the first rule
C7_Witness ==
    /\ task[1].cmd = "fetch_url"
    /\ HostOf(1) = "youtube.com.reddit.com"
    /\ HeaderValues(task[1].req, USER_AGENT) = {BROWSER_USER_AGENT}
    /\ task[1].sent = 1

----------------------------------------------------------------------------
\* The caller's keys that are "user-agent" in some casing
CallerUserAgentKeys(t) ==
    { e \in task[t].headers : to_lowercase(e[1]) = "user-agent" }

(* C8.  Every request http_request sends carries a User-Agent: the default *)
(* browser one when no caller key is "user-agent" in any casing, and only  *)
(* the caller's value(s) when one is.  The headers sent are the caller's   *)
(* and nothing else: the destination host adds none.                       *)
C8_UserAgentDefault ==
    \A t \in Tasks :
        task[t].cmd = "http_request" /\ task[t].sent >= 1 =>
            LET hm == task[t].req
                mine == CallerUserAgentKeys(t)
            IN  /\ USER_AGENT \in HeaderNames(hm)
                /\ mine = {} => HeaderValues(hm, USER_AGENT) = {BROWSER_USER_AGENT}
                /\ mine # {} => HeaderValues(hm, USER_AGENT) = { e[2] : e \in mine }
                /\ { e \in hm : e[1] # USER_AGENT }
                       = { <<to_lowercase(e[1]), e[2]>> : e \in task[t].headers \ mine }

\* A request to the youtube host went out with the value of the caller's
\* upper-case USER-AGENT key as its only User-Agent, and no policy header
C8_Witness ==
    /\ task[1].cmd = "http_request"
    /\ task[1].sent = 1
    /\ Contains(task[1].url, "youtube.com")
    /\ task[1].headers = { <<"USER-AGENT", "">>, <<"Accept", "*/*">> }
    /\ task[1].req = { <<"user-agent", "">>, <<"accept", "*/*">> }

----------------------------------------------------------------------------
(* C9, as claimed.  fetch_url reports every failure caused by a timeout as *)
(* TimedOut, whether of the whole request or of the connect phase;         *)
(* otherwise a connect failure as ConnectFailed, otherwise a request       *)
(* failure as TransportOrTLSFailed, otherwise Other.                       *)
C9_TimeoutAlwaysTimedOut ==
    \A t \in Tasks :
        task[t].cmd = "fetch_url" =>
            \A e \in task[t].fault :
                Category(Res(t)) =
                    IF e.timeout THEN "TimedOut"
                    ELSE IF e.connect THEN "ConnectFailed"
                    ELSE IF e.request THEN "TransportOrTLSFailed"
                    ELSE "Other"

(* C9, amended.  fetch_url classifies a transport failure by the first     *)
(* property that holds, connect before timeout: a failure to establish the *)
(* connection, a connect-phase timeout included, is ConnectFailed; a       *)
(* timeout that is not a connect failure is TimedOut; otherwise a request  *)
(* failure is TransportOrTLSFailed; otherwise Other.  The invocation ends  *)
(* with that error.                                                        *)
C9_ConnectBeforeTimeout ==
    \A t \in Tasks :
        task[t].cmd = "fetch_url" =>
            \A e \in task[t].fault :
                /\ Done(t)
                /\ task[t].resp = {}
                /\ Category(Res(t)) =
                       IF e.connect THEN "ConnectFailed"
                       ELSE IF e.timeout THEN "TimedOut"
                       ELSE IF e.request THEN "TransportOrTLSFailed"
                       ELSE "Other"

\* A connect-phase timeout (a connect failure that is a timeout) was
\* reported as a connection failure
C9_Witness ==
    /\ task[1].cmd = "fetch_url"
    /\ task[1].fault = {Fault(TRUE, TRUE, TRUE)}
    /\ task[1].result = {Err("Connection failed", "")}

----------------------------------------------------------------------------
\* The invocation got past input validation and client initialisation
Validated(t) == task[t].client # {} /\ ~InvalidInputGiven(t)

(* C10.  An invocation of fetch_url, http_request or check_network calls   *)
(* send() at most once, and exactly once when its input is valid and it    *)
(* obtained the client; a transport failure, a failure status or a failed  *)
(* body read ends the invocation with that error, with no second request.  *)
C10_OneRequestNoRetry ==
    \A t \in Tasks :
        /\ task[t].sent <= 1
        /\ task[t].pc \in {"await", "body"} => task[t].sent = 1
        /\ Done(t) => task[t].sent = IF Validated(t) THEN 1 ELSE 0
        /\ task[t].fault # {} \/ task[t].body_read = "failed"
               => Done(t) /\ ~Res(t).ok /\ task[t].sent = 1
        /\ task[t].result # {} => Done(t)

\* One invocation ended on a transport failure and another on a failure
\* status, each after exactly one request
C10_Witness ==
    \E t, u \in Tasks :
        /\ Done(t) /\ task[t].cmd = "check_network"
        /\ task[t].fault # {} /\ task[t].sent = 1
        /\ Done(u) /\ task[u].cmd = "fetch_url"
        /\ task[u].result = {ErrStatus(404)} /\ task[u].sent = 1

----------------------------------------------------------------------------
\* http_request returned the unsupported-method error: the message names the
\* upper-cased method string
UnsupportedMethodError(t) == Err("Unsupported HTTP method", UpperOf[task[t].method])

(* C11, as claimed.  An http_request whose method is, in upper case, none  *)
(* of GET, POST, PUT, DELETE, PATCH returns the unsupported-method         *)
(* InvalidInput error and has sent no request, whatever the state of the   *)
(* shared client.                                                          *)
C11_UnsupportedWhateverClient ==
    \A t \in Tasks :
        task[t].cmd = "http_request" /\ Done(t) /\ ~MethodSupported(t)
            => Res(t) = UnsupportedMethodError(t) /\ task[t].sent = 0

(* C11, amended.  http_request obtains the shared client first and then    *)
(* resolves the method by its upper-case form.  Any casing of GET, POST,   *)
(* PUT, DELETE, PATCH is accepted exactly as the upper-case verb is: the   *)
(* call never returns the unsupported-method error, and with valid headers *)
(* it sends its one request.  Any other method string sends no request and *)
(* returns the unsupported-method error naming the upper-cased string,     *)
(* before the headers are looked at, except that the call returns the      *)
(* client construction error when the client could not be obtained.  A     *)
(* request is only ever in flight for a supported verb.                    *)
C11_MethodResolvedAfterClient ==
    \A t \in Tasks :
        task[t].cmd = "http_request" =>
            /\ Done(t) /\ ~MethodSupported(t)
                   => /\ task[t].sent = 0
                      /\ IF task[t].client = {} THEN Res(t) = ClientError
                         ELSE Res(t) = UnsupportedMethodError(t)
            /\ Done(t) /\ MethodSupported(t)
                   => /\ Res(t).msg # "Unsupported HTTP method"
                      /\ task[t].client # {} /\ BadHeaderKeys(t) = {}
                             => task[t].sent = 1
            /\ task[t].sent > 0 \/ task[t].pc \in {"await", "body"}
                   => MethodSupported(t)

\* With the client obtained, a method that is no supported verb in any casing
\* was refused, invalid headers or not, and nothing was sent
C11_Witness ==
    /\ Done(1)
    /\ task[1].cmd = "http_request"
    /\ task[1].method = "GETS"
    /\ task[1].client # {}
    /\ BadHeaderKeys(1) # {}
    /\ Res(1) = Err("Unsupported HTTP method", "GETS")
    /\ task[1].sent = 0

----------------------------------------------------------------------------
\* The categories a failed send() is classified into
TransportCategories == {"ConnectFailed", "TimedOut", "TransportOrTLSFailed", "Other"}

(* C12.  When the send() of check_network fails, the error it returns is   *)
(* in the category fetch_url assigns to the same fault, one of             *)
(* ConnectFailed, TimedOut, TransportOrTLSFailed, Other, for every         *)
(* combination of the connect, timeout and request properties of the       *)
(* fault; and likewise the error of a fetch_url whose send() failed is in  *)
(* the category check_network assigns to that fault.  When check_network   *)
(* receives a response it returns the success message carrying the status  *)
(* observed, whatever the status is.  The probe sends exactly one request  *)
(* in both cases.                                                          *)
C12_ProbeSameTaxonomy ==
    \A t \in Tasks :
        /\ task[t].cmd = "check_network" /\ Done(t)
               => /\ \A e \in task[t].fault :
                        /\ Category(Res(t)) = Category(fetch_url_classify(e))
                        /\ Category(Res(t)) \in TransportCategories
                        /\ task[t].resp = {}
                        /\ task[t].sent = 1
                  /\ \A code \in task[t].resp :
                        /\ Res(t) = OkProbe(code)
                        /\ Res(t).ok /\ Res(t).status = {code}
                        /\ task[t].fault = {}
                        /\ task[t].sent = 1
                  /\ task[t].fault = {} /\ task[t].resp = {}
                        => Res(t) = ClientError /\ task[t].sent = 0
        /\ task[t].cmd = "fetch_url" /\ Done(t)
               => \A e \in task[t].fault :
                      Category(Res(t)) = Category(check_network_classify(e))

\* The probe's send() failed in the connect phase by running out of time, and
\* the probe reported a connect failure, as fetch_url does for that fault
C12_Witness ==
    /\ Done(1)
    /\ task[1].cmd = "check_network"
    /\ task[1].fault = { Fault(TRUE, TRUE, FALSE) }
    /\ Res(1) = Err("Connection failed (DNS or firewall?)", "")
    /\ Category(fetch_url_classify(Fault(TRUE, TRUE, FALSE))) = "ConnectFailed"

----------------------------------------------------------------------------
\* The size expand_window gives the window when the slot is empty
DefaultSize == LogicalSize(1280, 1, 800, scale_factor)

(* C13.  Whatever collapse_window and expand_window calls came before, an  *)
(* expand_window that returns Ok leaves the slot AppState.saved empty; if  *)
(* the window was collapsed, it now has the size and the position it had   *)
(* when it was collapsed, however many times collapse_window was called in *)
(* between; and if the slot was empty, the window now has the default size *)
(* 1280x800.                                                               *)
C13_ExpandRestoresExpandedGeometry ==
    [][ expand_window /\ ret'.ok
          => /\ saved' = {}
             /\ \A geo \in expanded :
                    saved # {} => window'.size = geo.size /\ window'.pos = geo.pos
             /\ saved = {} => window'.size = DefaultSize
      ]_vars

====
